---- MODULE Spec2Model ----
(***************************************************************************)
(* Unity test-run orchestration client: the run_tests / rerun_failed_tests *)
(* tools and the completion poller wait_for_run_completion.                *)
(*                                                                         *)
(* Python values are boxed records [t |-> type, v |-> value] so that None, *)
(* strings, integers, booleans, dicts and lists stay distinct.  Monotonic  *)
(* time is counted in ticks of POLL_INTERVAL_SECONDS (0.5 s).              *)
(***************************************************************************)
EXTENDS Integers, Sequences, FiniteSets, TLC

VARIABLES
    tool,           \* which tool function is invoked
    args,           \* the caller's arguments
    pc,             \* position of the invocation (its current suspension point)
    clock,          \* time.monotonic(), in ticks
    submitted,      \* the submission sent to the transport (command, params)
    response,       \* the submission's response
    run_id,         \* wait_for_run_completion: run_id
    timeout_seconds,\* wait_for_run_completion: timeout_seconds
    start_time,     \* wait_for_run_completion: start_time
    deadline,       \* wait_for_run_completion: deadline
    last_snapshot,  \* wait_for_run_completion: last_snapshot
    last_log,       \* wait_for_run_completion: last_log
    now,            \* wait_for_run_completion: now
    status_resp,    \* wait_for_run_completion: status_resp
    result_resp,    \* wait_for_run_completion: result_resp
    iterCmds,       \* commands the poller issued in the current loop iteration
    sentIds,        \* runId parameters of all status/result queries issued
    nSubmit,        \* number of submissions sent
    statusOdd,      \* whether the number of status queries issued so far is odd
    lastInfo,       \* last ctx.info notification (sent: the time of the call)
    outcome,        \* how wait_for_run_completion ended (returned / raised)
    result,         \* what the tool function returned (or raised)
    lastOkStatus,   \* history: last successful status response observed
    altPattern,     \* history: status source failed on odd calls, non-terminal on even
    cancelled,      \* whether the task running the invocation was cancelled
    pair,           \* two concurrent invocations: the suspended one, the answers
                    \* of the remote runs, the outcomes when run alone
    bootstrap       \* bootstrap_shared_server: module globals, sys.path, os.environ,
                    \* the file system, and what the calls returned

vars == <<tool, args, pc, clock, submitted, response, run_id, timeout_seconds,
          start_time, deadline, last_snapshot, last_log, now, status_resp,
          result_resp, iterCmds, sentIds, nSubmit, statusOdd, lastInfo, outcome,
          result, lastOkStatus, altPattern, cancelled, pair, bootstrap>>

----------------------------------------------------------------------------
(* Bounds of the model *)

\* largest explicit timeout_seconds argument tried
MaxTimeoutSeconds == 2
\* longest a transport call may take, in ticks
MaxCallTicks == 1
\* longest a ctx.info notification may take, in ticks
MaxInfoTicks == 0
\* longest asyncio.sleep may overshoot, in ticks
MaxSleepLag == 0
\* monotonic clock reading when the tool is invoked: 0 or MaxBoot ticks
MaxBoot == 10

(* Program constants *)

TicksPerSecond == 2
POLL_INTERVAL_TICKS == 1
PROGRESS_LOG_TICKS == 10
DEFAULT_TIMEOUT_SECONDS == 600
DefaultTimeoutSeconds == 600
FINAL_STATES == {"completed", "failed", "canceled", "cancelled", "faulted"}

----------------------------------------------------------------------------
(* Python values *)

None == [t |-> "none"]
S(s) == [t |-> "str", v |-> s]
I(n) == [t |-> "int", v |-> n]
B(b) == [t |-> "bool", v |-> b]
\* a float, held as its repr text
F(r) == [t |-> "float", v |-> r]
\* an integer beyond 2^31, held as its decimal text
BigI(digits) == [t |-> "bigint", v |-> digits]
D(f) == [t |-> "dict", v |-> f]
L(q) == [t |-> "list", v |-> q]
\* an object that is not a dict (e.g. an MCPResponse the transport hands back)
Obj == [t |-> "obj"]
\* history markers
Unset == [t |-> "unset"]
Raised == [t |-> "raised"]

EmptyMap == [k \in {} |-> None]
EmptyDict == D(EmptyMap)

IsDict(x) == x.t = "dict"

\* bool(x)
Truthy(x) ==
    CASE x.t = "none" -> FALSE
      [] x.t = "str"  -> x.v # ""
      [] x.t = "int"  -> x.v # 0
      [] x.t = "float" -> x.v \notin {"0.0", "-0.0"}
      [] x.t = "bool" -> x.v
      [] x.t = "dict" -> DOMAIN x.v # {}
      [] x.t = "list" -> x.v # <<>>
      [] OTHER        -> TRUE

\* a or b
Or(a, b) == IF Truthy(a) THEN a ELSE b

\* d.get(k)
Get(d, k) == IF k \in DOMAIN d.v THEN d.v[k] ELSE None

\* d[k] = x
Put(d, k, x) == D([j \in (DOMAIN d.v) \cup {k} |-> IF j = k THEN x ELSE d.v[j]])

\* d.setdefault(k, x)
SetDefault(d, k, x) == IF k \in DOMAIN d.v THEN d ELSE Put(d, k, x)

----------------------------------------------------------------------------
(* Strings.  str.strip, str.lower, substring search and number parsing are *)
(* given on the strings the model uses; any other string is already        *)
(* stripped, lower-case, without the searched substrings, and no number.   *)

\* s.strip()
Strip(s) ==
    CASE s = " Yes " -> "Yes"
      [] s = " 2 "   -> "2"
      [] s = "  "    -> ""
      [] s = " r1 "  -> "r1"
      [] s = " a "   -> "a"
      [] s = " ALL " -> "ALL"
      [] s = " EditMode " -> "EditMode"
      [] OTHER       -> s

\* s.lower()
Lower(s) ==
    CASE s = "Completed"          -> "completed"
      [] s = "FAILED"             -> "failed"
      [] s = "Running"            -> "running"
      [] s = "Run not found"      -> "run not found"
      [] s = "Test run NOT FOUND" -> "test run not found"
      [] s = "No active test run" -> "no active test run"
      [] s = "Unity busy"         -> "unity busy"
      [] s = "Yes"                -> "yes"
      [] s = "YES"                -> "yes"
      [] s = "No"                 -> "no"
      [] s = "NO"                 -> "no"
      [] s = "All"                -> "all"
      [] s = "ALL"                -> "all"
      [] s = "EditMode"           -> "editmode"
      [] s = "PlayMode"           -> "playmode"
      [] s = "None"               -> "none"
      [] s = "True"               -> "true"
      [] s = "False"              -> "false"
      [] OTHER                    -> s

\* needle in text, for the two needles the poller searches
Contains(text, needle) ==
    CASE text = "run not found"      -> needle = "not found"
      [] text = "test run not found" -> needle = "not found"
      [] text = "no active test run" -> needle = "no active"
      [] OTHER                       -> FALSE

\* int(float(s)): the strings that parse, with the integer they give
NumberTable ==
    ("0" :> 0) @@ ("1" :> 1) @@ ("2" :> 2) @@ ("3" :> 3) @@ ("-5" :> -5)
    @@ ("2.9" :> 2) @@ ("0.5" :> 0) @@ ("2.5" :> 2) @@ ("0.0" :> 0) @@ ("30" :> 30)

\* int(float(s)) for digit strings beyond 2^53: float(s) is the nearest double,
\* so the integer that comes back is not always the one written
LargeNumberTable == ("9007199254740993" :> "9007199254740992")

\* str(x)
PyStr(x) ==
    CASE x.t = "str"  -> x.v
      [] x.t = "int"  -> ToString(x.v)
      [] x.t = "float" -> x.v
      [] x.t = "bool" -> IF x.v THEN "True" ELSE "False"
      [] OTHER        -> "None"

----------------------------------------------------------------------------
(* Value normalizers *)

coerce_int(value, default) ==
    IF value = None THEN default
    ELSE IF value.t = "bool" THEN default
    ELSE IF value.t = "int" THEN (IF value.v > 0 THEN value ELSE default)
    ELSE LET s == Strip(PyStr(value)) IN
         IF Lower(s) \in {"", "none", "null"} THEN default
         ELSE IF s \in DOMAIN LargeNumberTable THEN BigI(LargeNumberTable[s])
         ELSE IF s \notin DOMAIN NumberTable THEN default   \* int(float(s)) raised
         ELSE IF NumberTable[s] > 0 THEN I(NumberTable[s]) ELSE default

\* only booleans and the listed texts are recognized; a number is matched by
\* its text like any other value
coerce_bool_TextOnly(value, default) ==
    IF value = None THEN default
    ELSE IF value.t = "bool" THEN value
    ELSE LET text == Lower(Strip(PyStr(value))) IN
         IF text \in {"true", "1", "yes", "y", "on"} THEN B(TRUE)
         ELSE IF text \in {"false", "0", "no", "n", "off"} THEN B(FALSE)
         ELSE default

coerce_bool(value, default) ==
    IF value = None THEN default
    ELSE IF value.t = "bool" THEN value
    ELSE IF value.t \in {"int", "float"} THEN B(Truthy(value))
    ELSE LET text == Lower(Strip(PyStr(value))) IN
         IF text \in {"true", "1", "yes", "y", "on"} THEN B(TRUE)
         ELSE IF text \in {"false", "0", "no", "n", "off"} THEN B(FALSE)
         ELSE default

\* coerce_string_list._stringify: the text, or None
Stringify(item) ==
    IF item = None THEN None
    ELSE LET text == Strip(PyStr(item)) IN IF text = "" THEN None ELSE S(text)

\* the entries of q, each kept at its first occurrence unless already in seen
RECURSIVE Unique(_, _)
Unique(q, seen) ==
    IF q = <<>> THEN <<>>
    ELSE IF Head(q) \in seen THEN Unique(Tail(q), seen)
    ELSE <<Head(q)>> \o Unique(Tail(q), seen \cup {Head(q)})

\* the stringified entries of q that are not None
RECURSIVE StringifyAll(_)
StringifyAll(q) ==
    IF q = <<>> THEN <<>>
    ELSE LET maybe == Stringify(Head(q)) IN
         (IF Truthy(maybe) THEN <<maybe.v>> ELSE <<>>) \o StringifyAll(Tail(q))

coerce_string_list(value) ==
    IF value = None THEN None
    ELSE LET items == IF value.t = "list" THEN StringifyAll(value.v)
                      ELSE StringifyAll(<<value>>)
             unique == Unique(items, {})
         IN IF items = <<>> THEN None ELSE Or(L(unique), None)

\* every argument is normalized on its own: an entry is repeated when a later
\* argument holds it again
RECURSIVE CombineFrom_PerArgument(_, _)
CombineFrom_PerArgument(values, seen) ==
    IF values = <<>> THEN <<>>
    ELSE LET normalized == coerce_string_list(Head(values))
         IN (IF Truthy(normalized) THEN normalized.v ELSE <<>>)
            \o CombineFrom_PerArgument(Tail(values), seen)

\* combine_string_lists(*values), values a sequence of arguments
RECURSIVE CombineFrom(_, _)
CombineFrom(values, seen) ==
    IF values = <<>> THEN <<>>
    ELSE LET normalized == coerce_string_list(Head(values))
             fresh == IF Truthy(normalized) THEN Unique(normalized.v, seen) ELSE <<>>
         IN fresh \o CombineFrom(Tail(values), seen \cup {fresh[i] : i \in DOMAIN fresh})

combine_string_lists(values) == Or(L(CombineFrom(values, {})), None)

----------------------------------------------------------------------------
(* What the remote side may answer *)

SummaryA == D([total |-> I(1), passed |-> I(1), failed |-> I(0), skipped |-> I(0),
               durationSeconds |-> I(1), resultState |-> S("Passed")])
\* a summary that carries the four counts only
SummaryCounts == D([total |-> I(1), passed |-> I(1), failed |-> I(0), skipped |-> I(0)])
ResultsA == L(<<D([name |-> S("Bar"), fullName |-> S("Foo.Bar"), state |-> S("Passed"),
                   durationSeconds |-> I(1)])>>)

\* snapshots a successful, non-terminal status response may carry
SnapRunning == D([runId |-> S("r1"), mode |-> S("EditMode"), state |-> S("Running")])
SnapProgress == D([runId |-> S("r1"), state |-> S("Running"), summary |-> SummaryCounts])
\* snapshots a successful, terminal status response may carry
SnapCompleted == D([runId |-> S("r1"), mode |-> S("EditMode"), state |-> S("Completed"),
                    summary |-> SummaryA])
SnapFailedNoId == D([state |-> S("failed")])

OkStatus(data) == D([success |-> B(TRUE), data |-> data])

StatusNonTerminal == {OkStatus(None), OkStatus(SnapRunning), OkStatus(SnapProgress)}
StatusTerminal == {OkStatus(SnapCompleted), OkStatus(SnapFailedNoId)}
StatusNotFound == {D([success |-> B(FALSE), error |-> S("Run not found")]),
                   D([message |-> S("No active test run")])}
StatusOtherFailure == {D([success |-> B(FALSE), error |-> S("Unity busy")]), Obj}
StatusResponses ==
    StatusNonTerminal \cup StatusTerminal \cup StatusNotFound \cup StatusOtherFailure

\* result data: a full result, one without a state key, one whose state is None,
\* one that is only a summary of counts
ResultFull == D([runId |-> S("r1"), mode |-> S("EditMode"), state |-> S("completed"),
                 summary |-> SummaryA, results |-> ResultsA])
ResultNoState == D([runId |-> S("r1"), summary |-> SummaryA, results |-> ResultsA])
ResultNullState == D([runId |-> S("r1"), state |-> None, results |-> ResultsA])
ResultCountsOnly == D([summary |-> SummaryCounts])

ResultOk == {D([success |-> B(TRUE), data |-> ResultFull]),
             D([success |-> B(TRUE), data |-> ResultNoState]),
             D([success |-> B(TRUE), data |-> ResultNullState]),
             D([success |-> B(TRUE), data |-> ResultCountsOnly]),
             D([success |-> B(TRUE), data |-> None])}
ResultFailure == {D([success |-> B(FALSE), error |-> S("Result unavailable")]), Obj}
ResultResponses == ResultOk \cup ResultFailure

SubmitResponses ==
    {Obj,
     D([success |-> B(FALSE), error |-> S("Unity busy")]),
     D([success |-> B(TRUE), message |-> S("started"), data |-> D([runId |-> S("")])]),
     D([success |-> B(TRUE), message |-> S("started"), data |-> D([runId |-> S("r1")])])}

\* answers to list_tests
ListTestsResponses ==
    {Obj,
     D([success |-> B(FALSE), error |-> S("Unity busy")]),
     D([success |-> B(TRUE), data |-> L(<<S("Foo.Bar")>>)])}

(* What the caller may pass *)

Tools == {"run_tests", "rerun_failed_tests", "server_run_tests"}
WaitInputs == {B(TRUE), B(FALSE), None, S("No"), S("maybe")}
TimeoutInputs ==
    {None, S(" 2 "), S("abc"), B(TRUE), I(-1)} \cup {I(n) : n \in 0..MaxTimeoutSeconds}
RunIdInputs == {None, S(""), S("r0")}
\* the mode given to list_tests: the three declared values, other spellings of
\* them, and nothing
ModeInputs ==
    {None, S(""), S("  "), S("All"), S("all"), S(" ALL "), S("EditMode"),
     S(" EditMode "), S("PlayMode"), S("playmode")}
\* values of a name-list argument: absent, one name, blank text, lists with
\* blanks, untrimmed entries, repeated entries and a number
ListInputs ==
    {None, S("a"), S("  "), L(<<>>), L(<<S(" a "), S("a"), S("b")>>),
     L(<<S(""), None, S("  ")>>), L(<<S("b"), I(3), S(" a ")>>)}

----------------------------------------------------------------------------
(* Response envelope and exceptions *)

\* what pydantic raises when a value does not fit the declared model
ValidationError == [t |-> "ValidationError"]

\* the entries of d under the declared field names; an undeclared key is
\* dropped and a missing field with a default is None
Fields(d, names) == D([k \in names |-> Get(d, k)])

OptionalStr(x) == x = None \/ x.t = "str"

\* class RunTestsSummary: every field is required
SummaryFields == {"total", "passed", "failed", "skipped", "durationSeconds", "resultState"}
ValidSummary(x) ==
    /\ IsDict(x)
    /\ \A k \in {"total", "passed", "failed", "skipped", "durationSeconds"} :
           Get(x, k).t = "int"
    /\ Get(x, "resultState").t = "str"

\* class RunTestsTestResult: name, fullName, state, durationSeconds are required
TestResultFields ==
    {"name", "fullName", "state", "durationSeconds", "message", "stackTrace", "output"}
ValidTestResult(x) ==
    /\ IsDict(x)
    /\ \A k \in {"name", "fullName", "state"} : Get(x, k).t = "str"
    /\ Get(x, "durationSeconds").t = "int"
    /\ \A k \in {"message", "stackTrace", "output"} : OptionalStr(Get(x, k))

\* class RunTestsResult: every field is optional, the nested models are not
ResultFields == {"runId", "mode", "state", "summary", "results"}
ValidResult(x) ==
    /\ IsDict(x)
    /\ \A k \in {"runId", "mode", "state"} : OptionalStr(Get(x, k))
    /\ Get(x, "summary") = None \/ ValidSummary(Get(x, "summary"))
    /\ \/ Get(x, "results") = None
       \/ /\ Get(x, "results").t = "list"
          /\ \A i \in DOMAIN Get(x, "results").v : ValidTestResult(Get(x, "results").v[i])

\* RunTestsResult(**x), for a valid x
RunTestsResult(x) ==
    LET summary == Get(x, "summary")
        results == Get(x, "results")
    IN D([k \in ResultFields |->
            IF k = "summary" /\ summary # None THEN Fields(summary, SummaryFields)
            ELSE IF k = "results" /\ results # None
            THEN L([i \in DOMAIN results.v |-> Fields(results.v[i], TestResultFields)])
            ELSE Get(x, k)])

\* RunTestsResponse(success=..., message=..., error=..., data=...): the data
\* is validated against RunTestsResult | None
RunTestsResponse(success, message, error, data) ==
    IF data # None /\ ~ValidResult(data) THEN ValidationError
    ELSE [t |-> "RunTestsResponse",
          v |-> [success |-> success, message |-> message, error |-> error,
                 data |-> IF data = None THEN None ELSE RunTestsResult(data)]]

\* MCPResponse(**response)
MCPResponse(resp) ==
    [t |-> "MCPResponse",
     v |-> [success |-> Get(resp, "success"), message |-> Get(resp, "message"),
            error |-> Get(resp, "error"), data |-> Get(resp, "data")]]

\* RunTestsResponse(**response)
FromResponse(resp) ==
    RunTestsResponse(Get(resp, "success"), Get(resp, "message"), Get(resp, "error"),
                     Get(resp, "data"))

\* RunCompletionTimeout(run_id, timeout_seconds, snapshot)
RunCompletionTimeout(rid, secs, snapshot) ==
    [t |-> "RunCompletionTimeout", run_id |-> rid, timeout_seconds |-> secs,
     snapshot |-> Or(snapshot, EmptyDict)]

\* an exception a transport call raised
TransportError == [t |-> "Exception", text |-> "connection lost"]
\* the value wait_for_run_completion returned
Returned(data) == [t |-> "return", data |-> data]

build_summary_message(rid, result_data) ==
    LET summary == Or(Get(Or(result_data, EmptyDict), "summary"), EmptyDict)
        result_state == Or(Get(summary, "resultState"), S("Unknown"))
        total == Get(summary, "total")
        passed == Get(summary, "passed")
        failed == Get(summary, "failed")
        skipped == Get(summary, "skipped")
        head == "Run '" \o PyStr(rid) \o "' finished with state " \o PyStr(result_state)
    IN IF \A value \in {total, passed, failed, skipped} : value = None
       THEN head \o "."
       ELSE head \o ": " \o PyStr(Or(passed, I(0))) \o "/" \o PyStr(Or(total, I(0)))
            \o " passed, " \o PyStr(Or(failed, I(0))) \o " failed, "
            \o PyStr(Or(skipped, I(0))) \o " skipped."

\* run_tests, after wait_for_run_completion returned or raised
RunTestsAfterWait(rid, out) ==
    IF out.t = "RunCompletionTimeout"
    THEN LET snapshot == Or(out.snapshot, D([runId |-> rid, state |-> S("Unknown")]))
             message == "Test run '" \o PyStr(rid) \o "' is still running after "
                        \o ToString(out.timeout_seconds) \o " seconds."
         IN RunTestsResponse(B(FALSE), S(message), S(message), snapshot)
    ELSE IF out.t = "Exception"
    THEN RunTestsResponse(B(FALSE),
             S("Failed to retrieve final results for run '" \o PyStr(rid) \o "': " \o out.text),
             S(out.text), D([runId |-> rid]))
    ELSE RunTestsResponse(B(TRUE), S(build_summary_message(rid, out.data)), None, out.data)

\* rerun_failed_tests, after wait_for_run_completion returned or raised
RerunAfterWait(rid, out) ==
    IF out.t = "RunCompletionTimeout"
    THEN LET snapshot == Or(out.snapshot, D([runId |-> rid, state |-> S("Unknown")]))
             message == "Failed-test rerun '" \o PyStr(rid) \o "' is still running after "
                        \o ToString(out.timeout_seconds) \o " seconds."
         IN RunTestsResponse(B(FALSE), S(message), S(message), snapshot)
    ELSE IF out.t = "Exception"
    THEN RunTestsResponse(B(FALSE),
             S("Failed to retrieve rerun results for '" \o PyStr(rid) \o "': " \o out.text),
             S(out.text), D([runId |-> rid]))
    ELSE RunTestsResponse(B(TRUE), S(build_summary_message(rid, out.data)), None, out.data)

----------------------------------------------------------------------------
(* Submission payloads *)

PutIf(d, cond, k, x) == IF cond THEN Put(d, k, x) ELSE d

\* every filter key is set, whatever the normalized value is
WithFilters_AlwaysSet(params, a) ==
    LET p1 == Put(params, "testNames", combine_string_lists(<<a.test_names, a.tests>>))
        p2 == Put(p1, "groupNames", coerce_string_list(a.group_names))
        p3 == Put(p2, "categoryNames",
                  combine_string_lists(<<a.category_names, a.categories>>))
    IN Put(p3, "assemblyNames", combine_string_lists(<<a.assembly_names, a.assemblies>>))

\* the optional filters of run_tests, added to params
WithFilters(params, a) ==
    LET filtered_tests == combine_string_lists(<<a.test_names, a.tests>>)
        filtered_groups == coerce_string_list(a.group_names)
        filtered_categories == combine_string_lists(<<a.category_names, a.categories>>)
        filtered_assemblies == combine_string_lists(<<a.assembly_names, a.assemblies>>)
        p1 == PutIf(params, Truthy(filtered_tests), "testNames", filtered_tests)
        p2 == PutIf(p1, Truthy(filtered_groups), "groupNames", filtered_groups)
        p3 == PutIf(p2, Truthy(filtered_categories), "categoryNames", filtered_categories)
    IN PutIf(p3, Truthy(filtered_assemblies), "assemblyNames", filtered_assemblies)

\* run_tests (MCPForUnity): params
RunTestsParams(a) ==
    LET ts == coerce_int(a.timeout_seconds, None)
        p0 == D([mode |-> a.mode])
        p1 == PutIf(p0, ts # None, "timeoutSeconds", ts)
        p2 == Put(p1, "waitForCompletion", B(FALSE))
    IN WithFilters(p2, a)

\* run_tests (Server): params
ServerRunTestsParams(a) ==
    LET ts == coerce_int(a.timeout_seconds, None)
        wait == coerce_bool(a.wait_for_completion, B(TRUE))
        p0 == D([mode |-> a.mode])
        p1 == PutIf(p0, ts # None, "timeoutSeconds", ts)
        p2 == PutIf(p1, wait # None, "waitForCompletion", wait)
    IN WithFilters(p2, a)

\* rerun_failed_tests: params
RerunParams(a) ==
    LET timeout == coerce_int(a.timeout_seconds, None)
        p0 == PutIf(EmptyDict, Truthy(a.run_id), "runId", a.run_id)
        p1 == Put(p0, "waitForCompletion", B(FALSE))
    IN PutIf(p1, timeout # None, "timeoutSeconds", timeout)

\* the payload carries the mode in lower case
ListTestsParams_CaseFolded(a) ==
    LET normalized_mode == Lower(Strip(Or(a.mode, S("All")).v))
    IN PutIf(EmptyDict, normalized_mode # "all", "mode", S(normalized_mode))

\* list_tests: params
ListTestsParams(a) ==
    LET normalized_mode == Strip(Or(a.mode, S("All")).v)
    IN PutIf(EmptyDict, Lower(normalized_mode) # "all", "mode", S(normalized_mode))

\* the command a tool submits
CommandOf(t) ==
    CASE t = "rerun_failed_tests" -> "rerun_failed_tests"
      [] t = "list_tests"         -> "list_tests"
      [] OTHER                    -> "run_tests"

ParamsOf(t, a) ==
    CASE t = "run_tests"          -> RunTestsParams(a)
      [] t = "server_run_tests"   -> ServerRunTestsParams(a)
      [] t = "rerun_failed_tests" -> RerunParams(a)
      [] t = "list_tests"         -> ListTestsParams(a)

\* only the boolean False disables waiting; strings are not normalized
WaitOf_OnlyFalse(a) == IF a.wait_for_completion = B(FALSE) THEN B(FALSE) ELSE B(TRUE)

\* wait
WaitOf(a) == coerce_bool(a.wait_for_completion, B(TRUE))

\* the caller's integer is passed on as it is, without the positivity test
WaitTimeoutOf_RawInteger(t, a) ==
    IF a.timeout_seconds.t = "int" THEN a.timeout_seconds.v
    ELSE Or(coerce_int(a.timeout_seconds, None), I(DEFAULT_TIMEOUT_SECONDS)).v

\* wait_timeout, in seconds
WaitTimeoutOf(t, a) ==
    IF t = "rerun_failed_tests"
    THEN Or(coerce_int(a.timeout_seconds, None), I(DefaultTimeoutSeconds)).v
    ELSE Or(coerce_int(a.timeout_seconds, None), I(DEFAULT_TIMEOUT_SECONDS)).v

\* the run identifier the tool waits for
RunIdOf(t, a, resp) ==
    IF t = "rerun_failed_tests"
    THEN Or(Get(Or(Get(resp, "data"), EmptyDict), "runId"), a.run_id)
    ELSE Get(Or(Get(resp, "data"), EmptyDict), "runId")

AfterWait(t, rid, out) ==
    IF t = "rerun_failed_tests" THEN RerunAfterWait(rid, out) ELSE RunTestsAfterWait(rid, out)

----------------------------------------------------------------------------
(* The invocation *)

\* remote runs waited for longer than MaxTimeoutSeconds finish within Horizon ticks
Horizon == 11

\* the arguments of an invocation; x and y are the values of the name lists
ArgsOf(t, w, ts, rid, x, y) ==
    [mode |-> S("EditMode"), timeout_seconds |-> ts, wait_for_completion |-> w,
     run_id |-> IF t = "rerun_failed_tests" THEN rid ELSE None,
     test_names |-> x, tests |-> y, group_names |-> x,
     category_names |-> y, categories |-> x,
     assembly_names |-> None, assemblies |-> y]

\* one invocation runs: there is no second task
NoPair == [stage |-> "single"]
\* the package is imported already: no call of the bootstrap is looked at
NoBootstrap == [calls |-> 0]

\* the tools before an invocation starts
InitTools ==
    /\ \/ /\ tool \in Tools
          /\ \E w \in WaitInputs, ts \in TimeoutInputs, rid \in RunIdInputs,
                x \in ListInputs, y \in ListInputs :
                /\ \/ tool = "run_tests" /\ w = B(TRUE) /\ x = None /\ y = None
                   \/ tool = "rerun_failed_tests" /\ w = B(TRUE) /\ rid = None
                        /\ clock = 0 /\ x = None /\ y = None
                   \/ ts = I(1) /\ x = None /\ y = None
                   \/ tool # "rerun_failed_tests" /\ w = B(FALSE) /\ ts = I(-1)
                        /\ clock = 0
                /\ args = ArgsOf(tool, w, ts, rid, x, y)
       \/ /\ tool = "list_tests"
          /\ \E mode \in ModeInputs : args = [mode |-> mode]
    /\ pc = "start"
    /\ clock \in {0, MaxBoot}
    /\ submitted = None
    /\ response = Unset
    /\ run_id = None
    /\ timeout_seconds = 0
    /\ start_time = 0
    /\ deadline = None
    /\ last_snapshot = None
    /\ last_log = 0
    /\ now = 0
    /\ status_resp = Unset
    /\ result_resp = Unset
    /\ iterCmds = <<>>
    /\ sentIds = {}
    /\ nSubmit = 0
    /\ statusOdd = FALSE
    /\ lastInfo = None
    /\ outcome = Unset
    /\ result = Unset
    /\ lastOkStatus = Unset
    /\ altPattern = TRUE
    /\ cancelled = FALSE
    /\ pair = NoPair

Init == InitTools /\ bootstrap = NoBootstrap

pollerVars == <<run_id, timeout_seconds, start_time, deadline, last_snapshot, last_log,
                now, status_resp, result_resp>>
historyVars == <<lastOkStatus, altPattern, cancelled, pair, bootstrap>>
queryVars == <<iterCmds, sentIds, statusOdd>>

\* the tool builds its params and sends the submission
Submit ==
    /\ pc = "start"
    /\ submitted' = [command |-> CommandOf(tool), params |-> ParamsOf(tool, args)]
    /\ nSubmit' = nSubmit + 1
    /\ pc' = "submit_wait"
    /\ UNCHANGED <<tool, args, clock, response, pollerVars, queryVars, lastInfo,
                   outcome, result, historyVars>>

\* the submission's transport call raises: the exception leaves the tool
SubmitRaise ==
    /\ pc = "submit_wait"
    /\ result' = TransportError
    /\ pc' = "done"
    /\ UNCHANGED <<tool, args, clock, submitted, response, pollerVars, queryVars,
                   nSubmit, lastInfo, outcome, historyVars>>

\* run_tests (Server): the response is returned, there is no wait
ServerSubmitReturn(resp) ==
    /\ pc = "submit_wait"
    /\ tool = "server_run_tests"
    /\ response' = resp
    /\ lastInfo' = [kind |-> "response", at |-> clock]
    /\ result' = IF IsDict(resp) THEN FromResponse(resp) ELSE resp
    /\ pc' = "done"
    /\ UNCHANGED <<tool, args, clock, submitted, pollerVars, queryVars, nSubmit,
                   outcome, historyVars>>

\* list_tests: the response is returned
ListTestsReturn(resp) ==
    /\ pc = "submit_wait"
    /\ tool = "list_tests"
    /\ response' = resp
    /\ result' = IF IsDict(resp) THEN MCPResponse(resp) ELSE resp
    /\ pc' = "done"
    /\ UNCHANGED <<tool, args, clock, submitted, pollerVars, queryVars, nSubmit,
                   lastInfo, outcome, historyVars>>

\* run_tests (MCPForUnity) and rerun_failed_tests: the response arrives; the tool
\* returns it, or enters wait_for_run_completion (up to its first status query).
\* The run id passed on is truthy, so the poller's ValueError cannot arise.
SubmitReturn(resp) ==
    /\ pc = "submit_wait"
    /\ tool \in {"run_tests", "rerun_failed_tests"}
    /\ response' = resp
    /\ lastInfo' = IF tool = "run_tests" THEN [kind |-> "response", at |-> clock]
                   ELSE lastInfo
    /\ IF ~IsDict(resp)
       THEN /\ result' = resp
            /\ pc' = "done"
            /\ UNCHANGED <<pollerVars, outcome>>
       ELSE IF ~Truthy(WaitOf(args))
       THEN /\ result' = FromResponse(resp)
            /\ pc' = "done"
            /\ UNCHANGED <<pollerVars, outcome>>
       ELSE IF ~Truthy(RunIdOf(tool, args, resp))
       THEN /\ result' = FromResponse(resp)
            /\ pc' = "done"
            /\ UNCHANGED <<pollerVars, outcome>>
       ELSE /\ run_id' = RunIdOf(tool, args, resp)
            /\ timeout_seconds' = WaitTimeoutOf(tool, args)
            /\ start_time' = clock
            /\ deadline' = IF WaitTimeoutOf(tool, args) # 0
                           THEN I(clock + WaitTimeoutOf(tool, args) * TicksPerSecond)
                           ELSE None
            /\ last_snapshot' = None
            /\ last_log' = 0
            /\ pc' = "poll"
            /\ UNCHANGED <<now, status_resp, result_resp, outcome, result>>
    /\ UNCHANGED <<tool, args, clock, submitted, queryVars, nSubmit, historyVars>>

----------------------------------------------------------------------------
(* wait_for_run_completion *)

StatusQuery(rid) == [cmd |-> "get_test_run_status", runId |-> rid]
ResultQuery(rid) == [cmd |-> "get_test_run_result", runId |-> rid]

\* non-resolving answers are possible: always within an explicit timeout, and up
\* to Horizon ticks into a longer wait
MayStall(t) == timeout_seconds <= MaxTimeoutSeconds \/ t - start_time < Horizon

\* the poller ends: the tool turns the outcome into its return value
Finish(out) ==
    /\ outcome' = out
    /\ result' = AfterWait(tool, run_id, out)
    /\ pc' = "done"

\* get_test_run_result is sent
IssueResult ==
    /\ iterCmds' = Append(iterCmds, ResultQuery(run_id))
    /\ sentIds' = sentIds \cup {run_id}

\* any unsuccessful status response is taken for a run no longer tracked
NotFoundText_AnyFailure(resp) == TRUE

\* the error text of an unsuccessful status response names a run no longer tracked
NotFoundText(resp) ==
    LET error_text == Lower(Or(Or(Get(resp, "error"), Get(resp, "message")), S("")).v)
    IN Contains(error_text, "not found") \/ Contains(error_text, "no active")

\* the throttled progress notification, then the sleep
ProgressCheck(t, ll) ==
    pc' = IF t - ll >= PROGRESS_LOG_TICKS THEN "info_progress" ELSE "sleep"

\* the deadline check anticipates the coming sleep and fires one poll interval early
AfterStatus_EarlyDeadline(resp, snap, t, ll) ==
    /\ now' = t
    /\ last_snapshot' = snap
    /\ IF Truthy(deadline) /\ t + POLL_INTERVAL_TICKS >= deadline.v
       THEN /\ Finish(RunCompletionTimeout(run_id, timeout_seconds, snap))
            /\ UNCHANGED <<iterCmds, sentIds>>
       ELSE IF IsDict(resp) /\ ~Truthy(Get(resp, "success")) /\ NotFoundText(resp)
       THEN /\ IssueResult
            /\ pc' = "result_wait_nf"
            /\ UNCHANGED <<outcome, result>>
       ELSE /\ ProgressCheck(t, ll)
            /\ UNCHANGED <<iterCmds, sentIds, outcome, result>>

\* from the deadline check on: timeout, the fetch for a run no longer tracked, or
\* the progress check; t is the clock reading, ll the value of last_log
AfterStatus(resp, snap, t, ll) ==
    /\ now' = t
    /\ last_snapshot' = snap
    /\ IF Truthy(deadline) /\ t >= deadline.v
       THEN /\ Finish(RunCompletionTimeout(run_id, timeout_seconds, snap))
            /\ UNCHANGED <<iterCmds, sentIds>>
       ELSE IF IsDict(resp) /\ ~Truthy(Get(resp, "success")) /\ NotFoundText(resp)
       THEN /\ IssueResult
            /\ pc' = "result_wait_nf"
            /\ UNCHANGED <<outcome, result>>
       ELSE /\ ProgressCheck(t, ll)
            /\ UNCHANGED <<iterCmds, sentIds, outcome, result>>

\* the deadline is tested before the status response is classified
Classify_DeadlineFirst(resp, t, ll) ==
    LET ok == IsDict(resp) /\ Truthy(Get(resp, "success"))
        snapshot == IF ok THEN Or(Get(resp, "data"), EmptyDict) ELSE last_snapshot
        state == IF ok THEN Lower(Or(Get(snapshot, "state"), S("")).v) ELSE ""
    IN IF ok /\ state \in FINAL_STATES /\ ~(Truthy(deadline) /\ t >= deadline.v)
       THEN /\ last_snapshot' = snapshot
            /\ IssueResult
            /\ pc' = "result_wait_final"
            /\ UNCHANGED <<now, outcome, result>>
       ELSE AfterStatus(resp, snapshot, t, ll)

\* the status response is classified: a successful terminal status sends the
\* result query, anything else goes on to the deadline check
Classify(resp, t, ll) ==
    IF IsDict(resp) /\ Truthy(Get(resp, "success"))
    THEN LET snapshot == Or(Get(resp, "data"), EmptyDict)
             state == Lower(Or(Get(snapshot, "state"), S("")).v)
         IN IF state \in FINAL_STATES
            THEN /\ last_snapshot' = snapshot
                 /\ IssueResult
                 /\ pc' = "result_wait_final"
                 /\ UNCHANGED <<now, outcome, result>>
            ELSE AfterStatus(resp, snapshot, t, ll)
    ELSE AfterStatus(resp, last_snapshot, t, ll)

\* top of the loop: get_test_run_status is sent
StatusCall ==
    /\ pc = "poll"
    /\ iterCmds' = <<StatusQuery(run_id)>>
    /\ sentIds' = sentIds \cup {run_id}
    /\ statusOdd' = ~statusOdd
    /\ pc' = "status_wait"
    /\ UNCHANGED <<tool, args, clock, submitted, response, pollerVars, nSubmit,
                   lastInfo, outcome, result, historyVars>>

\* the status query's exception is not caught and leaves the poller
StatusRaise_Propagates(d) ==
    /\ pc = "status_wait"
    /\ MayStall(clock + d)
    /\ clock' = clock + d
    /\ altPattern' = (altPattern /\ statusOdd)
    /\ Finish(TransportError)
    /\ UNCHANGED <<tool, args, submitted, response, pollerVars, queryVars, nSubmit,
                   lastInfo, lastOkStatus, cancelled, pair,
                   bootstrap>>

\* the status query raises after d ticks: the exception is absorbed
StatusRaise(d) ==
    /\ pc = "status_wait"
    /\ MayStall(clock + d)
    /\ clock' = clock + d
    /\ altPattern' = (altPattern /\ statusOdd)
    /\ IF (clock + d) - last_log >= PROGRESS_LOG_TICKS
       THEN /\ now' = clock + d
            /\ pc' = "info_retry"
            /\ UNCHANGED <<status_resp, last_snapshot, iterCmds, sentIds, outcome, result>>
       ELSE /\ status_resp' = None
            /\ Classify(None, clock + d, last_log)
    /\ UNCHANGED <<tool, args, submitted, response, run_id, timeout_seconds, start_time,
                   deadline, last_log, result_resp, statusOdd, nSubmit, lastInfo,
                   lastOkStatus, cancelled, pair,
                   bootstrap>>

\* the 'status unavailable' notification completes after d ticks
InfoRetryDone(d) ==
    /\ pc = "info_retry"
    /\ clock' = clock + d
    /\ lastInfo' = [kind |-> "retry", at |-> now, sent |-> clock]
    /\ last_log' = now
    /\ status_resp' = None
    /\ Classify(None, clock + d, now)
    /\ UNCHANGED <<tool, args, submitted, response, run_id, timeout_seconds, start_time,
                   deadline, result_resp, statusOdd, nSubmit, historyVars>>

\* the status query returns resp after d ticks
StatusReturn(resp, d) ==
    /\ pc = "status_wait"
    /\ MayStall(clock + d) \/ resp \in StatusTerminal
    /\ clock' = clock + d
    /\ status_resp' = resp
    /\ lastOkStatus' = IF resp \in StatusNonTerminal \cup StatusTerminal THEN resp
                       ELSE lastOkStatus
    /\ altPattern' = (altPattern /\ ~statusOdd /\ resp \in StatusNonTerminal)
    /\ Classify(resp, clock + d, last_log)
    /\ UNCHANGED <<tool, args, submitted, response, run_id, timeout_seconds, start_time,
                   deadline, last_log, result_resp, statusOdd, nSubmit, lastInfo,
                   cancelled, pair,
                   bootstrap>>

\* a result query raises after d ticks: the exception leaves the poller
ResultRaise(d) ==
    /\ pc \in {"result_wait_final", "result_wait_nf"}
    /\ clock' = clock + d
    /\ result_resp' = Raised
    /\ Finish(TransportError)
    /\ UNCHANGED <<tool, args, submitted, response, run_id, timeout_seconds, start_time,
                   deadline, last_snapshot, last_log, now, status_resp, queryVars,
                   nSubmit, lastInfo, historyVars>>

\* the snapshot's state overwrites the result's own state
FinalData_OverwritesState(resp, snapshot, rid) ==
    IF IsDict(resp) /\ Truthy(Get(resp, "success"))
    THEN Put(Or(Get(resp, "data"), EmptyDict), "state", Get(snapshot, "state"))
    ELSE D([runId |-> Or(Get(snapshot, "runId"), rid),
            mode |-> Get(snapshot, "mode"),
            state |-> Get(snapshot, "state"),
            summary |-> Get(snapshot, "summary"),
            results |-> None])

\* the fallback takes runId from the snapshot only
FinalData_SnapshotIdOnly(resp, snapshot, rid) ==
    IF IsDict(resp) /\ Truthy(Get(resp, "success"))
    THEN SetDefault(Or(Get(resp, "data"), EmptyDict), "state", Get(snapshot, "state"))
    ELSE D([runId |-> Get(snapshot, "runId"),
            mode |-> Get(snapshot, "mode"),
            state |-> Get(snapshot, "state"),
            summary |-> Get(snapshot, "summary"),
            results |-> None])

\* the value returned once a terminal status was seen and the result query answered
FinalData(resp, snapshot, rid) ==
    IF IsDict(resp) /\ Truthy(Get(resp, "success"))
    THEN SetDefault(Or(Get(resp, "data"), EmptyDict), "state", Get(snapshot, "state"))
    ELSE D([runId |-> Or(Get(snapshot, "runId"), rid),
            mode |-> Get(snapshot, "mode"),
            state |-> Get(snapshot, "state"),
            summary |-> Get(snapshot, "summary"),
            results |-> None])

\* the result query sent after a terminal status returns
ResultReturnFinal(resp, d) ==
    /\ pc = "result_wait_final"
    /\ clock' = clock + d
    /\ result_resp' = resp
    /\ Finish(Returned(FinalData(resp, last_snapshot, run_id)))
    /\ UNCHANGED <<tool, args, submitted, response, run_id, timeout_seconds, start_time,
                   deadline, last_snapshot, last_log, now, status_resp, queryVars,
                   nSubmit, lastInfo, historyVars>>

\* the result query sent for a run no longer tracked returns
ResultReturnNotFound(resp, d) ==
    /\ pc = "result_wait_nf"
    /\ MayStall(clock + d) \/ resp \in ResultOk
    /\ clock' = clock + d
    /\ result_resp' = resp
    /\ IF IsDict(resp) /\ Truthy(Get(resp, "success"))
       THEN Finish(Returned(Or(Get(resp, "data"), EmptyDict)))
       ELSE /\ ProgressCheck(now, last_log)
            /\ UNCHANGED <<outcome, result>>
    /\ UNCHANGED <<tool, args, submitted, response, run_id, timeout_seconds, start_time,
                   deadline, last_snapshot, last_log, now, status_resp, queryVars,
                   nSubmit, lastInfo, historyVars>>

\* the 'still <state>' notification completes after d ticks
InfoProgressDone(d) ==
    /\ pc = "info_progress"
    /\ clock' = clock + d
    /\ lastInfo' = [kind |-> "progress", at |-> now, sent |-> clock,
                    elapsed |-> now - start_time,
                    state |-> Or(Get(Or(last_snapshot, EmptyDict), "state"), S("pending"))]
    /\ last_log' = now
    /\ pc' = "sleep"
    /\ UNCHANGED <<tool, args, submitted, response, run_id, timeout_seconds, start_time,
                   deadline, last_snapshot, now, status_resp, result_resp, queryVars,
                   nSubmit, outcome, result, historyVars>>

\* the sleep yields without waiting: asyncio.sleep(0)
SleepDone_NoWait(lag) ==
    /\ pc = "sleep"
    /\ clock' = clock
    /\ status_resp' = Unset
    /\ result_resp' = Unset
    /\ now' = 0
    /\ pc' = "poll"
    /\ UNCHANGED <<tool, args, submitted, response, run_id, timeout_seconds, start_time,
                   deadline, last_snapshot, last_log, queryVars, nSubmit, lastInfo,
                   outcome, result, historyVars>>

\* asyncio.sleep(POLL_INTERVAL_SECONDS) completes, lag ticks late; the next
\* iteration assigns status_resp, result_resp and now before it reads them
SleepDone(lag) ==
    /\ pc = "sleep"
    /\ clock' = clock + POLL_INTERVAL_TICKS + lag
    /\ status_resp' = Unset
    /\ result_resp' = Unset
    /\ now' = 0
    /\ pc' = "poll"
    /\ UNCHANGED <<tool, args, submitted, response, run_id, timeout_seconds, start_time,
                   deadline, last_snapshot, last_log, queryVars, nSubmit, lastInfo,
                   outcome, result, historyVars>>

\* asyncio.CancelledError, raised at the await the task is suspended in; it is
\* a BaseException, so no 'except Exception' clause catches it
CancelledError == [t |-> "CancelledError"]

\* the awaits of wait_for_run_completion
PollerAwaits ==
    {"status_wait", "info_retry", "result_wait_final", "result_wait_nf",
     "info_progress", "sleep"}

\* the cancellation that arrives during the status query is caught by the try
\* block like any exception of the transport
Cancel_AbsorbedByTry ==
    /\ pc = "status_wait"
    /\ cancelled' = TRUE
    /\ status_resp' = None
    /\ Classify(None, clock, last_log)
    /\ UNCHANGED <<tool, args, clock, submitted, response, run_id, timeout_seconds,
                   start_time, deadline, last_log, result_resp, statusOdd, nSubmit,
                   lastInfo, lastOkStatus, altPattern, pair,
                   bootstrap>>

\* the task is cancelled while the poller is suspended: CancelledError leaves
\* wait_for_run_completion and the tool
Cancel ==
    /\ pc \in PollerAwaits
    /\ cancelled' = TRUE
    /\ outcome' = CancelledError
    /\ result' = CancelledError
    /\ pc' = "done"
    /\ UNCHANGED <<tool, args, clock, submitted, response, pollerVars, queryVars,
                   nSubmit, lastInfo, lastOkStatus, altPattern, pair,
                   bootstrap>>

Next ==
    \/ Submit
    \/ SubmitRaise
    \/ \E resp \in SubmitResponses : ServerSubmitReturn(resp)
    \/ \E resp \in SubmitResponses : SubmitReturn(resp)
    \/ \E resp \in ListTestsResponses : ListTestsReturn(resp)
    \/ StatusCall
    \/ \E d \in 0..MaxCallTicks : StatusRaise(d)
    \/ \E d \in 0..MaxInfoTicks : InfoRetryDone(d)
    \/ \E resp \in StatusResponses, d \in 0..MaxCallTicks : StatusReturn(resp, d)
    \/ \E d \in 0..MaxCallTicks : ResultRaise(d)
    \/ \E resp \in ResultResponses, d \in 0..MaxCallTicks : ResultReturnFinal(resp, d)
    \/ \E resp \in ResultResponses, d \in 0..MaxCallTicks : ResultReturnNotFound(resp, d)
    \/ \E d \in 0..MaxInfoTicks : InfoProgressDone(d)
    \/ \E lag \in 0..MaxSleepLag : SleepDone(lag)

Spec == Init /\ [][Next]_vars

\* the invocations without name lists, on a clock counted from their start: the
\* lists shape the submission only, and the wait reads the clock relative to
\* start_time
InitWithoutNames ==
    /\ Init
    /\ clock = 0
    /\ tool \in Tools => args.test_names = None /\ args.tests = None

\* every pending step is eventually taken: calls and sleeps complete
FairSpec == InitWithoutNames /\ [][Next]_vars /\ WF_vars(Next)

\* the invocation in a task that may be cancelled
NextOrCancel == Next \/ Cancel

CancelSpec == Init /\ [][NextOrCancel]_vars

----------------------------------------------------------------------------
(* Two invocations on one event loop.  Every name wait_for_run_completion  *)
(* assigns is a local of the coroutine, so each task has a frame of its    *)
(* own; the event loop runs one task at a time and may switch to the other *)
(* at an await.  The remote side answers the queries for a run by that     *)
(* run's own timeline, read on the waiting task's clock.                   *)

Other(task) == IF task = "A" THEN "B" ELSE "A"
RunIdOfTask == [A |-> "r1", B |-> "r2"]

\* a remote run: start of the wait, timeout asked for, duration of a transport
\* call, the status answer before and from doneAt ticks into the wait, and the
\* answer to the result query
Timeline(boot, secs, delay, before, doneAt, after, res) ==
    [boot |-> boot, timeout |-> secs, delay |-> delay, before |-> before,
     doneAt |-> doneAt, after |-> after, result |-> res]

Timelines ==
    {Timeline(0, 1, 0, OkStatus(SnapRunning), 1, OkStatus(SnapCompleted),
              D([success |-> B(TRUE), data |-> ResultFull])),
     Timeline(0, 1, 0, OkStatus(SnapRunning), 1, OkStatus(SnapCompleted), Raised),
     Timeline(0, 1, 0, OkStatus(SnapRunning), 0, OkStatus(SnapRunning), Raised),
     Timeline(MaxBoot, 1, 1, Raised, 0, Raised, Raised),
     Timeline(MaxBoot, 1, 0, OkStatus(SnapProgress), 0, OkStatus(SnapProgress), Raised),
     Timeline(0, 1, 0, D([success |-> B(FALSE), error |-> S("Run not found")]), 1,
              OkStatus(SnapFailedNoId), Obj)}

\* the locals of the running invocation
Frame ==
    [tool |-> tool, args |-> args, pc |-> pc, clock |-> clock, submitted |-> submitted,
     response |-> response, run_id |-> run_id, timeout_seconds |-> timeout_seconds,
     start_time |-> start_time, deadline |-> deadline, last_snapshot |-> last_snapshot,
     last_log |-> last_log, now |-> now, status_resp |-> status_resp,
     result_resp |-> result_resp, iterCmds |-> iterCmds, sentIds |-> sentIds,
     nSubmit |-> nSubmit, statusOdd |-> statusOdd, lastInfo |-> lastInfo,
     outcome |-> outcome, result |-> result, lastOkStatus |-> lastOkStatus,
     altPattern |-> altPattern, cancelled |-> cancelled]

\* no task is suspended
NoFrame == [pc |-> "none"]

\* run_tests has submitted, was given run id rid, and enters the poller
EntryFrame(rid, tl) ==
    LET a == ArgsOf("run_tests", B(TRUE), I(tl.timeout), None, None, None)
        secs == WaitTimeoutOf("run_tests", a)
    IN [tool |-> "run_tests", args |-> a, pc |-> "poll", clock |-> tl.boot,
        submitted |-> [command |-> CommandOf("run_tests"),
                       params |-> ParamsOf("run_tests", a)],
        response |-> D([success |-> B(TRUE), message |-> S("started"),
                        data |-> D([runId |-> S(rid)])]),
        run_id |-> S(rid), timeout_seconds |-> secs, start_time |-> tl.boot,
        deadline |-> I(tl.boot + secs * TicksPerSecond), last_snapshot |-> None,
        last_log |-> 0, now |-> 0, status_resp |-> Unset, result_resp |-> Unset,
        iterCmds |-> <<>>, sentIds |-> {}, nSubmit |-> 1, statusOdd |-> FALSE,
        lastInfo |-> [kind |-> "response", at |-> tl.boot], outcome |-> Unset,
        result |-> Unset, lastOkStatus |-> Unset, altPattern |-> TRUE,
        cancelled |-> FALSE]

\* the invocation with frame f is the running one
Runs(f) ==
    /\ tool = f.tool
    /\ args = f.args
    /\ pc = f.pc
    /\ clock = f.clock
    /\ submitted = f.submitted
    /\ response = f.response
    /\ run_id = f.run_id
    /\ timeout_seconds = f.timeout_seconds
    /\ start_time = f.start_time
    /\ deadline = f.deadline
    /\ last_snapshot = f.last_snapshot
    /\ last_log = f.last_log
    /\ now = f.now
    /\ status_resp = f.status_resp
    /\ result_resp = f.result_resp
    /\ iterCmds = f.iterCmds
    /\ sentIds = f.sentIds
    /\ nSubmit = f.nSubmit
    /\ statusOdd = f.statusOdd
    /\ lastInfo = f.lastInfo
    /\ outcome = f.outcome
    /\ result = f.result
    /\ lastOkStatus = f.lastOkStatus
    /\ altPattern = f.altPattern
    /\ cancelled = f.cancelled

\* the event loop resumes the task with frame f; snapshot is its last_snapshot
Resume(f, snapshot) ==
    /\ tool' = f.tool
    /\ args' = f.args
    /\ pc' = f.pc
    /\ clock' = f.clock
    /\ submitted' = f.submitted
    /\ response' = f.response
    /\ run_id' = f.run_id
    /\ timeout_seconds' = f.timeout_seconds
    /\ start_time' = f.start_time
    /\ deadline' = f.deadline
    /\ last_snapshot' = snapshot
    /\ last_log' = f.last_log
    /\ now' = f.now
    /\ status_resp' = f.status_resp
    /\ result_resp' = f.result_resp
    /\ iterCmds' = f.iterCmds
    /\ sentIds' = f.sentIds
    /\ nSubmit' = f.nSubmit
    /\ statusOdd' = f.statusOdd
    /\ lastInfo' = f.lastInfo
    /\ outcome' = f.outcome
    /\ result' = f.result
    /\ lastOkStatus' = f.lastOkStatus
    /\ altPattern' = f.altPattern
    /\ cancelled' = f.cancelled

InitPair ==
    /\ \E timeline \in [{"A", "B"} -> Timelines] :
          \E entry \in {[task \in {"A", "B"} |->
                             EntryFrame(RunIdOfTask[task], timeline[task])]} :
              /\ pair = [stage |-> "alone_A", role |-> "A", timeline |-> timeline,
                         entry |-> entry, alone |-> [A |-> Unset, B |-> Unset],
                         peer |-> NoFrame]
              /\ Runs(entry["A"])
    /\ bootstrap = NoBootstrap

\* the remote run the running task polls, and its answer to a status query
TimelineOfTask == pair.timeline[pair.role]
StatusAnswer ==
    IF clock + TimelineOfTask.delay - start_time < TimelineOfTask.doneAt
    THEN TimelineOfTask.before
    ELSE TimelineOfTask.after

AnsweredStatusRaise ==
    \E d \in {TimelineOfTask.delay} : StatusAnswer = Raised /\ StatusRaise(d)
AnsweredStatusReturn ==
    \E resp \in {StatusAnswer}, d \in {TimelineOfTask.delay} :
        resp # Raised /\ StatusReturn(resp, d)
AnsweredResultRaise ==
    \E d \in {TimelineOfTask.delay} : TimelineOfTask.result = Raised /\ ResultRaise(d)
AnsweredResultReturnFinal ==
    \E resp \in {TimelineOfTask.result}, d \in {TimelineOfTask.delay} :
        resp # Raised /\ ResultReturnFinal(resp, d)
AnsweredResultReturnNotFound ==
    \E resp \in {TimelineOfTask.result}, d \in {TimelineOfTask.delay} :
        resp # Raised /\ ResultReturnNotFound(resp, d)

\* how an invocation ended
Ending(f) == [outcome |-> f.outcome, result |-> f.result]

\* an invocation that ran with no other task has ended: B runs alone next, then
\* both invocations run from their entry as tasks of one event loop
AloneDone ==
    /\ pc = "done"
    /\ pair.stage \in {"alone_A", "alone_B"}
    /\ \E a \in {pair.entry["A"]}, b \in {pair.entry["B"]} :
          IF pair.stage = "alone_A"
          THEN /\ pair' = [pair EXCEPT !.alone["A"] = Ending(Frame),
                                       !.stage = "alone_B", !.role = "B"]
               /\ Resume(b, b.last_snapshot)
          ELSE /\ pair' = [pair EXCEPT !.alone["B"] = Ending(Frame),
                                       !.stage = "together", !.role = "A", !.peer = b]
               /\ Resume(a, a.last_snapshot)
    /\ UNCHANGED bootstrap

\* last_snapshot is one cell both invocations read and write
Switch_SharedSnapshot ==
    /\ pair.stage = "together"
    /\ pair.peer.pc # "done"
    /\ pair' = [pair EXCEPT !.peer = Frame, !.role = Other(pair.role)]
    /\ \E f \in {pair.peer} : Resume(f, last_snapshot)
    /\ UNCHANGED bootstrap

\* the running task is suspended at its await and the other task is resumed
Switch ==
    /\ pair.stage = "together"
    /\ pair.peer.pc # "done"
    /\ pair' = [pair EXCEPT !.peer = Frame, !.role = Other(pair.role)]
    /\ \E f \in {pair.peer} : Resume(f, f.last_snapshot)
    /\ UNCHANGED bootstrap

NextPair ==
    \/ StatusCall
    \/ AnsweredStatusRaise
    \/ AnsweredStatusReturn
    \/ InfoRetryDone(0)
    \/ AnsweredResultRaise
    \/ AnsweredResultReturnFinal
    \/ AnsweredResultReturnNotFound
    \/ InfoProgressDone(0)
    \/ SleepDone(0)
    \/ AloneDone
    \/ Switch

PairSpec == InitPair /\ [][NextPair]_vars

----------------------------------------------------------------------------
(* The value normalizers, called on their own *)

\* most arguments given to combine_string_lists
MaxArgs == 4

Normalizers == {"coerce_int", "coerce_bool", "coerce_string_list", "combine_string_lists"}

IntInputs ==
    {None, B(TRUE), B(FALSE), I(-1), I(0), I(1), I(30), F("2.5"), F("0.0"),
     S(""), S("  "), S("None"), S("null"), S("abc"), S("inf"), S(" 2 "), S("30"),
     S("0"), S("-5"), S("2.9"), S("0.5"), S("9007199254740993")}
IntDefaults == {None, I(7)}

BoolInputs ==
    {None, B(TRUE), B(FALSE), I(0), I(1), I(2), I(-1), F("0.0"), F("2.5"),
     S("true"), S("YES"), S("on"), S("1"), S("yes"), S("y"), S(" Yes "),
     S("false"), S("NO"), S("off"), S("0"), S("no"), S("n"), S("No"),
     S("maybe"), S(""), S("2")}
BoolDefaults == {None, B(TRUE), B(FALSE)}

NameListInputs ==
    {None, S("b"), S("  "), L(<<>>), L(<<S("a")>>), L(<<S("a"), S("c")>>),
     L(<<S(" a "), S("a"), S("b")>>), L(<<S(""), None, I(3)>>)}

\* the sequences of at most n arguments
ArgumentLists(n) == UNION {[1..k -> NameListInputs] : k \in 0..n}

InitNormalizer ==
    /\ tool \in Normalizers
    /\ args \in CASE tool = "coerce_int" ->
                     {[value |-> x, default |-> d] : x \in IntInputs, d \in IntDefaults}
                 [] tool = "coerce_bool" ->
                     {[value |-> x, default |-> d] : x \in BoolInputs, d \in BoolDefaults}
                 [] tool = "coerce_string_list" ->
                     {[value |-> x] : x \in NameListInputs}
                 [] tool = "combine_string_lists" ->
                     {[values |-> q] : q \in ArgumentLists(MaxArgs)}
    /\ pc = "start"
    /\ clock = 0
    /\ submitted = None
    /\ response = Unset
    /\ run_id = None
    /\ timeout_seconds = 0
    /\ start_time = 0
    /\ deadline = None
    /\ last_snapshot = None
    /\ last_log = 0
    /\ now = 0
    /\ status_resp = Unset
    /\ result_resp = Unset
    /\ iterCmds = <<>>
    /\ sentIds = {}
    /\ nSubmit = 0
    /\ statusOdd = FALSE
    /\ lastInfo = None
    /\ outcome = Unset
    /\ result = Unset
    /\ lastOkStatus = Unset
    /\ altPattern = TRUE
    /\ cancelled = FALSE
    /\ pair = NoPair
    /\ bootstrap = NoBootstrap

\* the function returns v
ReturnValue(v) ==
    /\ pc = "start"
    /\ result' = v
    /\ pc' = "done"
    /\ UNCHANGED <<tool, args, clock, submitted, response, pollerVars, queryVars,
                   nSubmit, lastInfo, outcome, historyVars>>

CallCoerceInt == tool = "coerce_int" /\ ReturnValue(coerce_int(args.value, args.default))

CallCoerceBool == tool = "coerce_bool" /\ ReturnValue(coerce_bool(args.value, args.default))

CallCoerceStringList ==
    tool = "coerce_string_list" /\ ReturnValue(coerce_string_list(args.value))

CallCombineStringLists ==
    tool = "combine_string_lists" /\ ReturnValue(combine_string_lists(args.values))

NextNormalizer ==
    \/ CallCoerceInt
    \/ CallCoerceBool
    \/ CallCoerceStringList
    \/ CallCombineStringLists

NormalizerSpec == InitNormalizer /\ [][NextNormalizer]_vars

----------------------------------------------------------------------------
(* bootstrap_shared_server: ensure_shared_server_on_path, called when the   *)
(* Server package is imported and by any later caller.  The process runs as *)
(* user u with home /home/u, without a Windows profile and outside a Unity  *)
(* project, so the candidates are the override's chunks, the WSL mount and  *)
(* the two home installs.                                                   *)

\* most calls of ensure_shared_server_on_path
MaxCalls == 3

RealPath == "/srv/unity/src"
WslPath == "/mnt/c/Users/u/AppData/Local/UnityMCP/UnityMcpServer/src"
ConfigPath == "/home/u/.config/UnityMCP/UnityMcpServer/src"
LocalPath == "/home/u/.local/share/UnityMCP/UnityMcpServer/src"

\* values of UNITY_MCP_SERVER_PATH, with the chunks that split(os.pathsep) and
\* strip leave of each
OverrideChunks ==
    ("" :> <<>>) @@ (" : " :> <<>>) @@ (" /opt/unity/src :" :> <<"/opt/unity/src">>)

\* Path.expanduser().resolve(): /opt/unity is a symbolic link to /srv/unity
resolve(path) == IF path = "/opt/unity/src" THEN RealPath ELSE path

\* what a resolved path is: absent, a directory with neither server.py nor
\* tools/, one with server.py, one with tools/; "loop" is a path resolve() fails on
Kinds == {"missing", "empty", "server.py", "tools", "loop"}
Locations == {RealPath, WslPath, ConfigPath, LocalPath}

_candidate_paths(environ) ==
    LET override == environ.UNITY_MCP_SERVER_PATH
    IN (IF Truthy(override) THEN OverrideChunks[override.v] ELSE <<>>)
       \o <<WslPath, ConfigPath, LocalPath>>

\* the loop over the candidates: the first one that resolves, exists and holds
\* server.py or tools/, or None
RECURSIVE FirstAvailable(_, _)
FirstAvailable(paths, fs) ==
    IF paths = <<>> THEN None
    ELSE LET expanded == resolve(Head(paths))
         IN IF fs[expanded] = "loop" THEN FirstAvailable(Tail(paths), fs)
            ELSE IF fs[expanded] = "missing" THEN FirstAvailable(Tail(paths), fs)
            ELSE IF ~(fs[expanded] = "server.py" \/ fs[expanded] = "tools")
            THEN FirstAvailable(Tail(paths), fs)
            ELSE S(expanded)

\* every variable of the tools
toolVars == <<tool, args, pc, clock, submitted, response, pollerVars, queryVars,
              nSubmit, lastInfo, outcome, result, lastOkStatus, altPattern, cancelled,
              pair>>

InitBootstrap ==
    /\ InitTools
    /\ tool = "server_run_tests"
    /\ args = ArgsOf(tool, B(FALSE), I(-1), None, None, None)
    /\ clock = 0
    /\ \E override \in {None} \cup {S(x) : x \in DOMAIN OverrideChunks},
          resolved \in {None, S(LocalPath)},
          fs \in [Locations -> Kinds] :
              bootstrap = [BOOTSTRAPPED |-> FALSE, RESOLVED_PATH |-> None,
                           sys_path |-> <<"/usr/lib/python3">>,
                           environ |-> [UNITY_MCP_SERVER_PATH |-> override,
                                        UNITY_MCP_SERVER_PATH_RESOLVED |-> resolved],
                           fs |-> fs, warnings |-> 0, calls |-> 0, returned |-> <<>>]

\* the call scans the candidates again although a call has been made before
ensure_shared_server_on_path_Rescans ==
    /\ bootstrap.calls < MaxCalls
    /\ LET found == FirstAvailable(_candidate_paths(bootstrap.environ), bootstrap.fs)
       IN bootstrap' =
             [bootstrap EXCEPT
                !.sys_path = IF found # None THEN <<found.v>> \o @ ELSE @,
                !.environ.UNITY_MCP_SERVER_PATH_RESOLVED = IF found # None /\ @ = None
                                                           THEN found ELSE @,
                !.RESOLVED_PATH = IF found # None THEN found ELSE @,
                !.BOOTSTRAPPED = TRUE,
                !.warnings = IF found = None /\ bootstrap.RESOLVED_PATH = None
                             THEN @ + 1 ELSE @,
                !.calls = @ + 1,
                !.returned = Append(@, IF found # None THEN found
                                       ELSE bootstrap.RESOLVED_PATH)]
    /\ UNCHANGED toolVars

\* one call, from its first line to its return
ensure_shared_server_on_path ==
    /\ bootstrap.calls < MaxCalls
    /\ IF bootstrap.BOOTSTRAPPED
       THEN bootstrap' = [bootstrap EXCEPT !.calls = @ + 1,
                                           !.returned = Append(@, bootstrap.RESOLVED_PATH)]
       ELSE LET found == FirstAvailable(_candidate_paths(bootstrap.environ), bootstrap.fs)
            IN bootstrap' =
                  [bootstrap EXCEPT
                     !.sys_path = IF found # None THEN <<found.v>> \o @ ELSE @,
                     !.environ.UNITY_MCP_SERVER_PATH_RESOLVED =
                         IF found # None /\ @ = None THEN found ELSE @,
                     !.RESOLVED_PATH = found,
                     !.BOOTSTRAPPED = TRUE,
                     !.warnings = IF found = None THEN @ + 1 ELSE @,
                     !.calls = @ + 1,
                     !.returned = Append(@, found)]
    /\ UNCHANGED toolVars

\* between calls an install appears, disappears or changes at a location
InstallChanges(location, kind) ==
    /\ bootstrap.fs[location] # kind
    /\ bootstrap' = [bootstrap EXCEPT !.fs[location] = kind]
    /\ UNCHANGED toolVars

\* between calls UNITY_MCP_SERVER_PATH is set anew
OverrideChanges(override) ==
    /\ bootstrap.environ.UNITY_MCP_SERVER_PATH # override
    /\ bootstrap' = [bootstrap EXCEPT !.environ.UNITY_MCP_SERVER_PATH = override]
    /\ UNCHANGED toolVars

NextBootstrap ==
    \/ ensure_shared_server_on_path
    \/ \E location \in Locations, kind \in Kinds : InstallChanges(location, kind)
    \/ \E override \in {None} \cup {S(x) : x \in DOMAIN OverrideChunks} :
          OverrideChanges(override)

BootstrapSpec == InitBootstrap /\ [][NextBootstrap]_vars

----------------------------------------------------------------------------
(* Properties *)

\* ticks since wait_for_run_completion was entered
Elapsed == clock - start_time
\* the configured timeout, in ticks
TimeoutTicks == timeout_seconds * TicksPerSecond
\* the data of the last successful status response ({} when it has none, or when
\* no successful response was observed)
LastObserved ==
    IF lastOkStatus = Unset THEN EmptyDict ELSE Or(Get(lastOkStatus, "data"), EmptyDict)
TimedOut == outcome.t = "RunCompletionTimeout"

\* C1: RunCompletionTimeout is raised only when at least the configured timeout
\* has elapsed since entry, and the snapshot it carries is the data of the last
\* successful status response observed (empty when none was observed).
C1_TimeoutNotEarly ==
    TimedOut => /\ Elapsed >= TimeoutTicks
                /\ outcome.snapshot = LastObserved
                /\ outcome.run_id = run_id
                /\ outcome.timeout_seconds = timeout_seconds

C1_Witness ==
    /\ TimedOut
    /\ lastOkStatus = OkStatus(SnapRunning)
    /\ outcome.snapshot = SnapRunning
    /\ status_resp = None

\* C2: once wait_for_run_completion polls, it eventually ends, by returning or by
\* raising, whatever the remote side answers.
C2_PollerTerminates == (pc = "poll") ~> (outcome # Unset)

C2_Witness ==
    /\ TimedOut
    /\ lastOkStatus = Unset
    /\ status_resp \in StatusOtherFailure
    /\ ~altPattern

\* C3: when a successful terminal status is followed by a successful result
\* response, the poller returns that response's data, with state taken from the
\* snapshot only where the data has no state key; the result query is the last
\* command of the invocation.
C3_ReturnsResult ==
    /\ [](pc = "done" /\ status_resp \in StatusTerminal /\ result_resp \in ResultOk
          => LET data == Or(Get(result_resp, "data"), EmptyDict)
                 snapshot == Get(status_resp, "data")
             IN /\ outcome.t = "return"
                /\ \A k \in DOMAIN data.v : Get(outcome.data, k) = data.v[k]
                /\ DOMAIN outcome.data.v = DOMAIN data.v \cup {"state"}
                /\ "state" \notin DOMAIN data.v
                     => Get(outcome.data, "state") = Get(snapshot, "state")
                /\ iterCmds = <<StatusQuery(run_id), ResultQuery(run_id)>>)
    /\ [][pc = "done" => pc' = "done" /\ UNCHANGED <<iterCmds, sentIds, statusOdd>>]_vars

C3_Witness ==
    /\ pc = "done"
    /\ ~statusOdd
    /\ status_resp = OkStatus(SnapCompleted)
    /\ result_resp \in ResultOk
    /\ Get(result_resp, "data") = ResultNoState
    /\ outcome.t = "return"
    /\ Get(outcome.data, "state") = S("Completed")
    /\ Get(outcome.data, "results") = ResultsA

\* the fallback value built from a snapshot
FallbackOf(snapshot) ==
    D([runId |-> IF "runId" \in DOMAIN snapshot.v THEN snapshot.v.runId ELSE run_id,
       mode |-> Get(snapshot, "mode"), state |-> Get(snapshot, "state"),
       summary |-> Get(snapshot, "summary"), results |-> None])

\* C4 as stated: after a terminal status, a result query that fails in any way
\* (raises, success=false, or not a dict) makes the poller return the fallback.
C4_FallbackOnAnyFailure ==
    (pc = "done" /\ status_resp \in StatusTerminal
        /\ (result_resp = Raised \/ result_resp \in ResultFailure))
    => outcome = Returned(FallbackOf(Get(status_resp, "data")))

\* C4 amended: after a terminal status, a result query answered with success=false
\* or with a value that is no dict makes the poller return the fallback; a result
\* query that raises makes the poller raise that exception.
C4_FallbackOnFailedResponse ==
    /\ (pc = "done" /\ status_resp \in StatusTerminal /\ result_resp \in ResultFailure)
       => outcome = Returned(FallbackOf(Get(status_resp, "data")))
    /\ (pc = "done" /\ status_resp \in StatusTerminal /\ result_resp = Raised)
       => outcome = TransportError

C4_Witness ==
    /\ pc = "done"
    /\ status_resp = OkStatus(SnapFailedNoId)
    /\ result_resp = Obj
    /\ outcome.t = "return"
    /\ Get(outcome.data, "runId") = run_id
    /\ Get(outcome.data, "state") = S("failed")

\* C5: while the status source raises on odd-numbered calls and answers with a
\* successful non-terminal status on even-numbered calls, the poller ends only by
\* RunCompletionTimeout, and only once the timeout has elapsed.
C5_AlternatingSource ==
    (altPattern /\ outcome # Unset) => (TimedOut /\ Elapsed >= TimeoutTicks)

C5_Witness ==
    /\ altPattern
    /\ TimedOut
    /\ lastOkStatus # Unset
    /\ status_resp = None
    /\ Elapsed >= TimeoutTicks

\* C6 as stated: in an iteration whose status response reports the run as not
\* found / not active, the result query is issued in that iteration, before any
\* timeout can be raised, and its data is returned when it succeeds.
C6_FetchBeforeTimeout ==
    status_resp \in StatusNotFound
    => /\ iterCmds = <<StatusQuery(run_id), ResultQuery(run_id)>>
       /\ result_resp \in ResultOk
            => outcome = Returned(Or(Get(result_resp, "data"), EmptyDict))

\* C7 as stated: when the status response reports the run as not found and the
\* follow-up result query fails (success=false, not a dict, or raises), the poller
\* does not end with an error but goes on to the progress check and the sleep.
C7_ContinuesAfterFailedFetch ==
    (status_resp \in StatusNotFound /\ (result_resp = Raised \/ result_resp \in ResultFailure))
    => (outcome = Unset /\ pc \in {"info_progress", "sleep"})

\* the caller's wait_for_completion values that normalize to true / to false
WaitEnabled == tool \in Tools /\ args.wait_for_completion \in {B(TRUE), None, S("maybe")}
WaitDisabled == tool \in Tools /\ args.wait_for_completion \in {B(FALSE), S("No")}
\* data.runId of the submission response
ResponseRunId == Get(Or(Get(response, "data"), EmptyDict), "runId")

\* C8 as stated: with waiting enabled, a submission response without a run
\* identifier means no status or result query is ever issued and the response is
\* returned as the envelope; a returned identifier is the only runId queried.
C8_NoRunIdNoPolling ==
    (tool \in {"run_tests", "rerun_failed_tests"} /\ WaitEnabled
        /\ response # Unset /\ IsDict(response))
    => IF Truthy(ResponseRunId)
       THEN sentIds \subseteq {ResponseRunId}
       ELSE sentIds = {} /\ (pc = "done" => result = FromResponse(response))

\* C9 as stated: every submission, of every implementation, carries
\* waitForCompletion = false.
C9_NeverForwardsWait ==
    (tool \in Tools /\ submitted # None)
    => Get(submitted.params, "waitForCompletion") = B(FALSE)

\* C10: when wait_for_completion normalizes to false, the submission is the only
\* transport command and its response is returned as the envelope; no status or
\* result query is issued, whether or not the response names a run.
C10_NoWaitNoPolling ==
    WaitDisabled
    => /\ sentIds = {}
       /\ iterCmds = <<>>
       /\ nSubmit <= 1
       /\ (pc = "done" /\ response # Unset)
            => /\ nSubmit = 1
               /\ outcome = Unset
               /\ IsDict(response)
                    => /\ result.t = "RunTestsResponse"
                       /\ \A k \in {"success", "message", "error"} :
                             result.v[k] = Get(response, k)
                       /\ LET data == Get(response, "data")
                          IN IF data = None THEN result.v.data = None
                             ELSE \A k \in DOMAIN data.v :
                                     Get(result.v.data, k) = data.v[k]
               /\ ~IsDict(response) => result = response

C10_Witness ==
    /\ pc = "done"
    /\ tool = "rerun_failed_tests"
    /\ args.wait_for_completion = S("No")
    /\ args.run_id = S("r0")
    /\ IsDict(response)
    /\ ResponseRunId = S("r1")
    /\ result = FromResponse(response)
    /\ sentIds = {}

\* the model x holds every entry of the dict d
SameEntries(x, d) == x # None /\ \A k \in DOMAIN d.v : Get(x, k) = d.v[k]

\* the envelope's data holds exactly what the dict d holds: the same run, mode
\* and state, the same summary and the same per-test results, each absent in
\* both or present in both
DataEquals(data, d) ==
    /\ data # None
    /\ DOMAIN d.v \subseteq ResultFields
    /\ \A k \in {"runId", "mode", "state"} : Get(data, k) = Get(d, k)
    /\ IF Get(d, "summary") = None THEN Get(data, "summary") = None
       ELSE SameEntries(Get(data, "summary"), Get(d, "summary"))
    /\ IF Get(d, "results") = None THEN Get(data, "results") = None
       ELSE /\ Get(data, "results") # None
            /\ Len(Get(data, "results").v) = Len(Get(d, "results").v)
            /\ \A i \in DOMAIN Get(d, "results").v :
                   SameEntries(Get(data, "results").v[i], Get(d, "results").v[i])

\* the wait ended in a failure: a timeout or an exception raised while waiting
WaitFailed == pc = "done" /\ outcome.t \in {"RunCompletionTimeout", "Exception"}

\* C11 as stated: once a run identifier was obtained, a failed wait never leaves
\* run_tests / rerun_failed_tests as an exception but as an envelope with
\* success=false: after a RunCompletionTimeout its data is the last snapshot (or
\* {runId, state "Unknown"} when there is none), after any other exception its
\* data holds the run identifier only.
C11_WaitFailureEnvelope ==
    WaitFailed
    => /\ result.t = "RunTestsResponse"
       /\ result.v.success = B(FALSE)
       /\ result.v.message.t = "str"
       /\ IF TimedOut
          THEN DataEquals(result.v.data,
                          IF LastObserved = EmptyDict
                          THEN D([runId |-> run_id, state |-> S("Unknown")])
                          ELSE LastObserved)
          ELSE DataEquals(result.v.data, D([runId |-> run_id]))

\* the sentence run_tests reports for the result data d of run r1
ExpectedSummarySentence(d) ==
    LET summary == Get(d, "summary")
    IN IF summary = None THEN "Run 'r1' finished with state Unknown."
       ELSE IF Get(summary, "resultState") = None
       THEN "Run 'r1' finished with state Unknown: 1/1 passed, 0 failed, 0 skipped."
       ELSE "Run 'r1' finished with state Passed: 1/1 passed, 0 failed, 0 skipped."

\* C12 as stated: when the poller returns a result, run_tests returns an envelope
\* with success=true, the result as data, and the message "Run '<id>' finished
\* with state <state>: <passed>/<total> passed, <failed> failed, <skipped>
\* skipped." (the state alone when the result has no count); so it does for the
\* result whose summary is {total: 1, passed: 1, failed: 0, skipped: 0}.
C12_SuccessEnvelope ==
    (pc = "done" /\ tool = "run_tests" /\ outcome.t = "return")
    => /\ result.t = "RunTestsResponse"
       /\ result.v.success = B(TRUE)
       /\ DataEquals(result.v.data, outcome.data)
       /\ result.v.message = S(ExpectedSummarySentence(outcome.data))

\* the poller has been entered
PollerEntered == run_id # None

\* the timeout the caller's timeout_seconds stands for, in seconds
ExpectedTimeout ==
    LET x == args.timeout_seconds
    IN IF x.t = "int" /\ x.v > 0 THEN x.v
       ELSE IF x = S(" 2 ") THEN 2
       ELSE 600

\* C13: the poller is entered with the caller's timeout_seconds when that is a
\* positive integer (also as numeric text) and with 600 seconds when it is absent,
\* non-numeric, a boolean, zero or negative; the timeout is positive and the
\* deadline is set to the entry time plus the timeout.
C13_PollerTimeout ==
    PollerEntered
    => /\ timeout_seconds = ExpectedTimeout
       /\ timeout_seconds > 0
       /\ deadline = I(start_time + timeout_seconds * TicksPerSecond)

C13_Witness ==
    /\ PollerEntered
    /\ tool = "rerun_failed_tests"
    /\ args.timeout_seconds = B(TRUE)
    /\ timeout_seconds = 600
    /\ deadline = I(1200)
    /\ pc = "status_wait"

\* C14: a cancellation that arrives while the poller is suspended in a transport
\* call, a notification or the poll sleep leaves the poller and the tool as
\* CancelledError at that point; it is not absorbed as a failed status query, and
\* afterwards no command, notification or sleep is issued.
C14_CancelPropagates ==
    /\ [](cancelled => pc = "done" /\ outcome = CancelledError /\ result = CancelledError)
    /\ [][cancelled => UNCHANGED <<pc, clock, iterCmds, sentIds, statusOdd, lastInfo>>]_vars

C14_Witness ==
    /\ cancelled
    /\ lastOkStatus # Unset
    /\ iterCmds = <<StatusQuery(run_id)>>
    /\ status_resp = Unset
    /\ outcome = CancelledError

\* the invocation of task has ended as it did when it ran alone, and its
\* queries carried no run id but its own
AsAlone(f, task) ==
    /\ f.sentIds \subseteq {S(RunIdOfTask[task])}
    /\ f.pc = "done" => Ending(f) = pair.alone[task]

TrimmedNames == {"a", "b", "c", "3"}
\* the optional list keys of a submission
ListKeys == {"testNames", "groupNames", "categoryNames", "assemblyNames"}

\* C16: in every submission of run_tests and rerun_failed_tests each optional key
\* is absent or canonical: timeoutSeconds a positive integer, a name list
\* non-empty with distinct, trimmed, non-blank strings, runId non-empty; no
\* optional key is present with None or an empty list.
C16_CanonicalPayload ==
    submitted # None
    => LET params == submitted.params.v
       IN /\ "timeoutSeconds" \in DOMAIN params
               => params.timeoutSeconds.t = "int" /\ params.timeoutSeconds.v > 0
          /\ \A k \in ListKeys \cap DOMAIN params :
                /\ params[k].t = "list"
                /\ params[k].v # <<>>
                /\ \A i \in DOMAIN params[k].v : params[k].v[i] \in TrimmedNames
                /\ \A i, j \in DOMAIN params[k].v : i # j => params[k].v[i] # params[k].v[j]
          /\ "runId" \in DOMAIN params
               => params.runId.t = "str" /\ params.runId.v # ""

C16_Witness ==
    /\ submitted # None
    /\ tool = "run_tests"
    /\ args.test_names = L(<<S("b"), I(3), S(" a ")>>)
    /\ args.tests = L(<<S(" a "), S("a"), S("b")>>)
    /\ args.timeout_seconds = I(-1)
    /\ DOMAIN submitted.params.v = {"mode", "waitForCompletion", "testNames", "groupNames",
                                    "categoryNames", "assemblyNames"}
    /\ submitted.params.v.testNames = L(<<"b", "3", "a">>)
    /\ submitted.params.v.assemblyNames = L(<<"a", "b">>)

\* the inputs for which the claim names the default as the result: absent,
\* boolean, non-numeric text, numeric but not positive
DefaultIntInputs ==
    {None, B(TRUE), B(FALSE), I(-1), I(0), S(""), S("  "), S("None"), S("null"),
     S("abc"), S("inf"), S("0"), S("-5")}
\* the numeric strings that stand for a positive integer, with that integer
IntegerOfText ==
    (S(" 2 ") :> I(2)) @@ (S("30") :> I(30))
    @@ (S("9007199254740993") :> BigI("9007199254740993"))

\* C17 as stated: coerce_int never raises; it returns the default for absent,
\* boolean, non-numeric and non-positive input, the integer itself for a
\* positive integer and for a numeric string that stands for a positive integer,
\* and never a value <= 0 other than the default.
C17_CoerceInt ==
    (tool = "coerce_int" /\ pc = "done")
    => LET x == args.value
       IN /\ x \in DefaultIntInputs => result = args.default
          /\ (x.t = "int" /\ x.v > 0) => result = x
          /\ x \in DOMAIN IntegerOfText => result = IntegerOfText[x]
          /\ result # args.default
               => \/ result.t = "int" /\ result.v > 0
                  \/ result.t = "bigint"

\* the inputs the claim names as true and as false (0.0 equals 0)
TrueInputs ==
    {B(TRUE), I(1), S("true"), S("YES"), S("on"), S("1"), S("yes"), S("y"), S(" Yes ")}
FalseInputs ==
    {B(FALSE), I(0), F("0.0"), S("false"), S("NO"), S("off"), S("0"), S("no"), S("n"),
     S("No")}
\* the numbers other than zero
NonZeroNumbers == {I(1), I(2), I(-1), F("2.5")}

\* C18 as stated: coerce_bool returns true for "true", "yes", "y", "on", "1" in
\* any letter case and with surrounding blanks, for 1 and for True; false for
\* "false", "no", "n", "off", "0", for 0 and for False; the default for anything
\* else.
C18_DefaultForAnythingElse ==
    (tool = "coerce_bool" /\ pc = "done")
    => result = IF args.value \in TrueInputs THEN B(TRUE)
                ELSE IF args.value \in FalseInputs THEN B(FALSE)
                ELSE args.default

\* C18 amended: as stated for booleans and text; every number converts by
\* truthiness (any number other than zero gives true, zero gives false); the
\* default comes back for an absent value and for any other text.
C18_NumbersByTruthiness ==
    (tool = "coerce_bool" /\ pc = "done")
    => result = IF args.value \in TrueInputs \cup NonZeroNumbers THEN B(TRUE)
                ELSE IF args.value \in FalseInputs THEN B(FALSE)
                ELSE args.default

C18_Witness ==
    /\ tool = "coerce_bool"
    /\ pc = "done"
    /\ args.value = I(2)
    /\ args.default = B(FALSE)
    /\ result = B(TRUE)

\* the arguments of the call: coerce_string_list is the one-argument case
ValuesOf == IF tool = "coerce_string_list" THEN <<args.value>> ELSE args.values
\* the entries an argument contributes: none when absent, its elements when a
\* list, itself otherwise
EntriesOf(value) ==
    IF value = None THEN <<>> ELSE IF value.t = "list" THEN value.v ELSE <<value>>
\* the trimmed text of an entry ("" for an absent entry)
TextOf(entry) == IF entry = None THEN "" ELSE Strip(PyStr(entry))
\* the places of the entries: argument index, element index
Places == UNION {{<<i, j>> : j \in DOMAIN EntriesOf(ValuesOf[i])} : i \in DOMAIN ValuesOf}
TextAt(p) == TextOf(EntriesOf(ValuesOf[p[1]])[p[2]])
\* argument order, then element order
Before(p, q) == p[1] < q[1] \/ (p[1] = q[1] /\ p[2] < q[2])
\* the trimmed, non-blank strings that occur in the inputs
Occurring == {TextAt(p) : p \in Places} \ {""}
\* the place where a string occurs first
FirstPlace(text) ==
    CHOOSE p \in Places : TextAt(p) = text /\ \A q \in Places : TextAt(q) = text => ~Before(q, p)

\* C19: combine_string_lists (coerce_string_list for one argument) returns None
\* when no trimmed, non-blank string occurs in the inputs, and otherwise the list
\* of exactly those strings, each once, in the order of their first occurrence
\* (argument order, then element order); no entry is blank or untrimmed.
C19_CombinedNames ==
    (tool \in {"coerce_string_list", "combine_string_lists"} /\ pc = "done")
    => IF Occurring = {} THEN result = None
       ELSE /\ result.t = "list"
            /\ {result.v[i] : i \in DOMAIN result.v} = Occurring
            /\ \A i, j \in DOMAIN result.v :
                   i < j => /\ result.v[i] # result.v[j]
                            /\ Before(FirstPlace(result.v[i]), FirstPlace(result.v[j]))
            /\ \A i \in DOMAIN result.v : result.v[i] \in TrimmedNames

\* combine_string_lists(["a"], "b", None, ["a", "c"]) returned ["a", "b", "c"]
C19_Witness ==
    /\ tool = "combine_string_lists"
    /\ pc = "done"
    /\ args.values = <<L(<<S("a")>>), S("b"), None, L(<<S("a"), S("c")>>)>>
    /\ result = L(<<"a", "b", "c">>)

\* the payload the claim as stated expects of list_tests: the mode trimmed and
\* in lower case, no mode for "all" and for no mode
CaseFoldedMode ==
    (S("EditMode") :> "editmode") @@ (S(" EditMode ") :> "editmode")
    @@ (S("PlayMode") :> "playmode") @@ (S("playmode") :> "playmode") @@ (S("  ") :> "")
\* the mode trimmed, its letter case kept
TrimmedMode ==
    (S("EditMode") :> "EditMode") @@ (S(" EditMode ") :> "EditMode")
    @@ (S("PlayMode") :> "PlayMode") @@ (S("playmode") :> "playmode") @@ (S("  ") :> "")

\* list_tests sent at most one command, list_tests, and no status or result
\* query; its payload holds the mode of the table, or nothing for the others
ListsOnceWith(modes) ==
    /\ sentIds = {}
    /\ iterCmds = <<>>
    /\ nSubmit <= 1
    /\ pc = "done" => nSubmit = 1
    /\ submitted # None
         => /\ submitted.command = "list_tests"
            /\ submitted.params = IF args.mode \in DOMAIN modes
                                  THEN D([mode |-> S(modes[args.mode])])
                                  ELSE EmptyDict

\* C20 as stated: list_tests issues exactly one transport command and never
\* polls; it omits the mode for "all" in any letter case and for no mode, and
\* otherwise sends the mode trimmed and case-folded.
C20_SendsCaseFoldedMode == tool = "list_tests" => ListsOnceWith(CaseFoldedMode)

\* C20 amended: list_tests issues exactly one transport command and never polls;
\* it omits the mode for "all" in any letter case and for no mode, and otherwise
\* sends the mode trimmed, in the letter case it was given.
C20_SendsTrimmedMode == tool = "list_tests" => ListsOnceWith(TrimmedMode)

C20_Witness ==
    /\ tool = "list_tests"
    /\ pc = "done"
    /\ args.mode = S(" EditMode ")
    /\ submitted.params = D([mode |-> S("EditMode")])
    /\ IsDict(response)

\* the status responses after which the poller asks for the result
Triggering == StatusTerminal \cup StatusNotFound
\* this step sends get_test_run_result
SendsResultQuery == iterCmds' # iterCmds /\ Len(iterCmds') = 2

\* C21: the commands of one loop iteration are a status query, then at most one
\* result query; a result query is sent only in the step that receives the
\* iteration's status response, and only when that response is a successful
\* terminal status or an unsuccessful not-found / no-active one; a failed status
\* query or any other status response sends none.
C21_StatusBeforeResult ==
    /\ [](iterCmds \in {<<>>, <<StatusQuery(run_id)>>,
                        <<StatusQuery(run_id), ResultQuery(run_id)>>})
    /\ [][SendsResultQuery =>
            /\ pc = "status_wait"
            /\ iterCmds = <<StatusQuery(run_id)>>
            /\ iterCmds' = <<StatusQuery(run_id), ResultQuery(run_id)>>
            /\ status_resp' \in Triggering]_vars
    /\ [][(pc \in {"status_wait", "info_retry"} /\ status_resp' \notin Triggering)
            => iterCmds' = iterCmds]_vars

\* a second iteration's result query, sent after a not-found response
C21_Witness ==
    /\ pc = "result_wait_nf"
    /\ status_resp \in StatusNotFound
    /\ iterCmds = <<StatusQuery(run_id), ResultQuery(run_id)>>
    /\ ~statusOdd
    /\ lastOkStatus \in StatusNonTerminal

\* the poller has ended in an iteration whose status response was a successful
\* terminal one
EndedOnTerminal == pc = "done" /\ outcome # Unset /\ status_resp \in StatusTerminal

\* C22 as stated: an iteration whose status response is a successful terminal
\* status ends the poller with a returned result, fetched or fallback, and a
\* timeout is raised only in an iteration without a terminal status.
C22_TerminalReturnsResult ==
    /\ EndedOnTerminal => outcome.t = "return"
    /\ TimedOut => status_resp \notin StatusTerminal

\* C22 amended: a successful terminal status sends the result query whether or
\* not the deadline has passed; the poller then returns a result, fetched or
\* fallback, or raises the exception the result query raised, and never
\* RunCompletionTimeout; a timeout is raised only in an iteration without a
\* terminal status.
C22_TerminalNeverTimesOut ==
    /\ (status_resp \in StatusTerminal /\ outcome = Unset) => pc = "result_wait_final"
    /\ EndedOnTerminal =>
          IF result_resp = Raised THEN outcome = TransportError ELSE outcome.t = "return"
    /\ TimedOut => status_resp \notin StatusTerminal

\* the fallback was returned although the deadline had passed when the terminal
\* status arrived: the result query took MaxCallTicks at most
C22_Witness ==
    /\ EndedOnTerminal
    /\ outcome.t = "return"
    /\ result_resp \in ResultFailure
    /\ Truthy(deadline)
    /\ clock - MaxCallTicks >= deadline.v

\* a notification of the poller: 'status unavailable; retrying' or 'still ...'
PollerNotice(info) == "sent" \in DOMAIN info
\* this step completes a notification of the poller
Notifies == lastInfo' # lastInfo /\ PollerNotice(lastInfo')

\* C23 as stated: two consecutive notifications of one poller invocation are sent
\* at least PROGRESS_LOG_INTERVAL apart in monotonic time, and a progress message
\* carries the state of the last successful status response, or "pending" when
\* there is none.
C23_NotificationThrottle ==
    /\ [][(Notifies /\ PollerNotice(lastInfo))
            => lastInfo'.sent - lastInfo.sent >= PROGRESS_LOG_TICKS]_vars
    /\ [][(Notifies /\ lastInfo'.kind = "progress")
            => lastInfo'.state = Or(Get(LastObserved, "state"), S("pending"))]_vars

\* this step is a call of ensure_shared_server_on_path
BootstrapCall == bootstrap'.calls = bootstrap.calls + 1
\* the places, in candidate order, of the candidates that exist and hold
\* server.py or tools/
AvailableAt ==
    LET paths == _candidate_paths(bootstrap.environ)
    IN {i \in 1..Len(paths) : bootstrap.fs[resolve(paths[i])] \in {"server.py", "tools"}}
FirstCandidate ==
    LET paths == _candidate_paths(bootstrap.environ)
    IN resolve(paths[CHOOSE i \in AvailableAt : \A j \in AvailableAt : i <= j])

====
